---- MODULE Spec2Model ----
(***************************************************************************)
(* A flow-transformer node (minemeld/ft/base.py, class BaseFT): its        *)
(* lifecycle state machine, the data path (update, withdraw, checkpoint),  *)
(* the filter chains applied on the way in and out, the checkpoint barrier *)
(* and the <name>.chkp file.  One node is modelled; its chassis, its       *)
(* upstream publishers and its RPC peers are the environment, which may    *)
(* invoke any handler with any argument at any time.                       *)
(***************************************************************************)
EXTENDS Integers, Sequences, FiniteSets, TLC

VARIABLES
    state,                  \* self.state
    inputs,                 \* self.inputs (a list of publisher names)
    output,                 \* self.output (None or the pub channel)
    has_inputs_checkpoint,  \* whether attribute self.inputs_checkpoint exists
    inputs_checkpoint,      \* self.inputs_checkpoint (dict source -> marker)
    last_checkpoint,        \* self.last_checkpoint
    chkp_file,              \* content of <name>.chkp on disk, None if absent
    infilters,              \* self.infilters.filters
    outfilters,             \* self.outfilters.filters
    pc,                     \* "idle", or the mgmt handler whose hook is running
    call,                   \* the handler invoked last, with source and marker
    result,                 \* how that call ended
    hooked,                 \* subclass hooks invoked by that call, in order
    published,              \* messages that call published on self.output
    nmarkers,               \* markers recorded since start() (saturating)
    returned,               \* value returned by the last call of a function
    chan,                   \* per upstream publisher: its messages in flight
    done,                   \* per upstream publisher: it sent its checkpoint
    sent,                   \* updates/withdraws the publishers sent this round
    outlog,                 \* what the node published on its channel, in order
    nseen,                  \* messages of outlog a subscriber has received
    round                   \* barrier round of the graph

vars == <<state, inputs, output, has_inputs_checkpoint, inputs_checkpoint,
          last_checkpoint, chkp_file, infilters, outfilters, pc, call,
          result, hooked, published, nmarkers, returned, chan, done, sent,
          outlog, nseen, round>>

\* the node's surroundings: its upstream channels and its subscriber
graph == <<chan, done, sent, outlog, nseen, round>>

node == <<state, inputs, output, has_inputs_checkpoint, inputs_checkpoint,
          last_checkpoint, chkp_file, infilters, outfilters>>

-----------------------------------------------------------------------------
(* Python's None and a present value, as sets of at most one element.      *)

None == {}

Some(x) == {x}

The(o) == CHOOSE x \in o : TRUE

-----------------------------------------------------------------------------
(* ft_states                                                                *)

READY == "READY"

CONNECTED == "CONNECTED"

INIT == "INIT"

REBUILDING == "REBUILDING"

RESET == "RESET"

STARTED == "STARTED"

CHECKPOINT == "CHECKPOINT"

IDLE == "IDLE"

STOPPED == "STOPPED"

States == {READY, CONNECTED, INIT, REBUILDING, RESET, STARTED, CHECKPOINT,
           IDLE, STOPPED}

-----------------------------------------------------------------------------
(* Bounds and input sets                                                    *)

MaxMarkers == 3

\* updates and withdraws the publishers of the graph send in one round
MaxSent == 2

\* barrier rounds of the graph
MaxRounds == 2

\* Strings are sequences of characters, so that strip() and startswith()
\* are computed.
Markers == { <<"a">>, <<"a", " ">> }

\* "A" and "B" are publishers a node may subscribe to; "X" is a peer that
\* reaches the node over its RPC channel only.
Sources == {"A", "B", "X"}

InputLists == { <<>>, <<"A">>, <<"A", "B">> }

\* the publishers of the graph A, B -> node
Upstreams == {"A", "B"}

GraphInputs == { <<"A">>, <<"A", "B">> }

\* the marker the chassis hands out for a round: another one each round
RoundMarker(r) == IF r % 2 = 1 THEN <<"a">> ELSE <<"a", " ">>

\* <name>.chkp as the previous process left it
InitialFiles == { None, Some(<<"a", " ">>) }

Indicators == {"i"}

ScoreKey == <<"s", "c", "o", "r", "e">>

TransitKey == <<"_", "t">>

IndicatorKey == <<"_", "i", "n", "d", "i", "c", "a", "t", "o", "r">>

Dicts == { [k \in {ScoreKey} |-> 10],
           [k \in {ScoreKey, TransitKey} |-> 80] }

Values == {None} \cup { Some(d) : d \in Dicts }

\* conditions: [value.score >= 50], actions: [accept]; then a final drop
ScoreFilters ==
    << [conditions |-> << [key |-> ScoreKey, min |-> 50] >>,
        actions |-> << "accept" >>],
       [conditions |-> << >>, actions |-> << "log", "drop" >>] >>

FilterConfigs == { << >>, ScoreFilters }

\* a filter that only logs, then one whose first terminal action is drop
LogThenDrop ==
    << [conditions |-> << >>, actions |-> << "log" >>],
       [conditions |-> << >>, actions |-> << "drop", "accept" >>] >>

\* conditions: [value.score >= 50, value.score >= 90], actions: [drop]
TwoConditions ==
    << [conditions |-> << [key |-> ScoreKey, min |-> 50],
                          [key |-> ScoreKey, min |-> 90] >>,
        actions |-> << "drop" >>] >>

CallFilterConfigs == FilterConfigs \cup { LogThenDrop, TwoConditions }

\* what the transport hands back for an RPC
RpcReplies == {"result", "error", "timeout"}

-----------------------------------------------------------------------------
(* String helpers                                                           *)

IsSpace(c) == c = " "

RECURSIVE lstrip(_)
lstrip(s) ==
    IF Len(s) > 0 /\ IsSpace(Head(s)) THEN lstrip(Tail(s)) ELSE s

RECURSIVE rstrip(_)
rstrip(s) ==
    IF Len(s) > 0 /\ IsSpace(s[Len(s)])
    THEN rstrip(SubSeq(s, 1, Len(s) - 1))
    ELSE s

strip(s) == rstrip(lstrip(s))

startswith_underscore(k) == Len(k) > 0 /\ k[1] = "_"

\* d.pop(key)
pop(d, key) == [k \in DOMAIN d \ {key} |-> d[k]]

\* for k in value.keys(): if k.startswith("_"): value.pop(k)
strip_transit_keys(value) ==
    IF value = None
    THEN None
    ELSE LET v == The(value)
         IN  Some([k \in {x \in DOMAIN v : ~startswith_underscore(x)} |-> v[k]])

-----------------------------------------------------------------------------
(* _Filters.apply                                                           *)

Condition_eval(c, d) == c.key \in DOMAIN d /\ d[c.key] >= c.min

filter_matches(f, d) ==
    \A i \in 1..Len(f.conditions) : Condition_eval(f.conditions[i], d)

terminal_actions(f) ==
    {i \in 1..Len(f.actions) : f.actions[i] \in {"accept", "drop"}}

first_terminal_m(f) ==
    f.actions[CHOOSE i \in terminal_actions(f) :
                  \A j \in terminal_actions(f) : i >= j]

first_terminal(f) ==
    f.actions[CHOOSE i \in terminal_actions(f) :
                  \A j \in terminal_actions(f) : i <= j]

accept(indicator, value, d) ==
    IF value = None
    THEN <<Some(indicator), None>>
    ELSE <<Some(indicator), Some(pop(d, IndicatorKey))>>

RECURSIVE apply_from(_, _, _, _, _)
apply_from(filters, n, indicator, value, d) ==
    IF n > Len(filters)
    THEN accept(indicator, value, d)
    ELSE LET f == filters[n]
         IN  IF ~filter_matches(f, d) \/ terminal_actions(f) = {}
             THEN apply_from(filters, n + 1, indicator, value, d)
             ELSE IF first_terminal(f) = "accept"
                  THEN accept(indicator, value, d)
                  ELSE <<None, None>>

Filters_apply(filters, indicator, value) ==
    LET v == IF value = None THEN << >> ELSE The(value)
        d == [k \in DOMAIN v \cup {IndicatorKey} |->
                 IF k = IndicatorKey THEN indicator ELSE v[k]]
    IN  apply_from(filters, 1, indicator, value, d)

-----------------------------------------------------------------------------
(* emit_update, emit_withdraw, emit_checkpoint: the messages published      *)

emit_filtered(topic, indicator, value) ==
    IF output = None
    THEN << >>
    ELSE LET r == Filters_apply(outfilters, indicator, value)
         IN  IF r[1] = None
             THEN << >>
             ELSE << [topic |-> topic, indicator |-> The(r[1]),
                      value |-> r[2]] >>

emit_update(indicator, value) == emit_filtered("update", indicator, value)

emit_withdraw(indicator, value) == emit_filtered("withdraw", indicator, value)

emit_checkpoint(value) ==
    IF output = None
    THEN << >>
    ELSE << [topic |-> "checkpoint", value |-> value] >>

-----------------------------------------------------------------------------
(* How a call ends                                                          *)

Called(op, source, marker) ==
    call' = [op |-> op, source |-> source, marker |-> marker]

\* an exception leaves the handler: nothing was changed before it
Raises ==
    /\ result' = "raise"
    /\ hooked' = << >>
    /\ published' = << >>
    /\ UNCHANGED <<node, pc, nmarkers>>

\* the handler returns without having done anything
Returns(r) ==
    /\ result' = r
    /\ hooked' = << >>
    /\ published' = << >>
    /\ UNCHANGED <<node, pc, nmarkers>>

-----------------------------------------------------------------------------
(* The checkpoint file                                                      *)

\* self.last_checkpoint = f.read().strip(), None when there is no file
read_checkpoint_m(file) == file

read_checkpoint(file) ==
    IF file = None THEN None ELSE Some(strip(The(file)))

-----------------------------------------------------------------------------

Constructed(configs) ==
    /\ state = READY
    /\ inputs = << >>
    /\ output = None
    /\ has_inputs_checkpoint = FALSE
    /\ inputs_checkpoint = << >>
    /\ \E disk \in InitialFiles : last_checkpoint = read_checkpoint(disk)
    /\ chkp_file = None
    /\ infilters \in configs
    /\ outfilters \in configs
    /\ pc = "idle"
    /\ call = [op |-> "__init__", source |-> None, marker |-> None]
    /\ result = "return"
    /\ hooked = << >>
    /\ published = << >>
    /\ nmarkers = 0
    /\ returned = None
    /\ chan = [s \in Upstreams |-> << >>]
    /\ done = [s \in Upstreams |-> FALSE]
    /\ sent = 0
    /\ outlog = << >>
    /\ nseen = 0
    /\ round = 1

Init == Constructed(FilterConfigs)

-----------------------------------------------------------------------------
(* Conditions of the handlers                                               *)

\* self.state not in [ft_states.STARTED, ft_states.CHECKPOINT]
accepts_data_m(st) == TRUE

accepts_data_idle(st) == st \in {STARTED, CHECKPOINT, IDLE}

accepts_data(st) == st \in {STARTED, CHECKPOINT}

\* source in self.inputs_checkpoint
from_checkpointed_m(map, source) == FALSE

from_checkpointed(map, source) == source \in DOMAIN map

\* for v in self.inputs_checkpoint.values(): if v != value
diverges_m(map, value) == FALSE

diverges(map, value) == \E s \in DOMAIN map : map[s] # value

\* self.inputs_checkpoint[source] = value
record_marker(map, source, value) ==
    [s \in DOMAIN map \cup {source} |-> IF s = source THEN value ELSE map[s]]

\* len(self.inputs_checkpoint) != len(self.inputs), negated
barrier_complete_one(map, ins) == Cardinality(DOMAIN map) >= 1

barrier_complete_m(map, ins) == Cardinality(DOMAIN map) >= Len(ins)

barrier_complete(map, ins) == Cardinality(DOMAIN map) = Len(ins)

\* len(self.inputs) != 0, negated
is_source_m(ins) == TRUE

is_source(ins) == Len(ins) = 0

\* f.write(value): what <name>.chkp holds afterwards (under Spec the write
\* succeeds)
create_checkpoint_m(value) == Some(strip(value))

create_checkpoint(value) == Some(value)

\* filtered_withdraw(source=source, indicator=indicator, value=value) when
\* the infilters drop an update: the value handed to the hook
withdrawn_value_m(value, fltvalue) == fltvalue

withdrawn_value(value, fltvalue) == value

\* self.state != ft_states.INIT, negated
may_start_m(st) == st \in {INIT, STOPPED}

may_start(st) == st = INIT

\* self.state not in [ft_states.IDLE, ft_states.STARTED], negated
may_stop(st) == st \in {IDLE, STARTED}

\* self.state != ft_states.READY, negated
may_connect(st) == st = READY

mgmtbus_state_info ==
    [checkpoint |-> last_checkpoint,
     state |-> state,
     is_source |-> (Len(inputs) = 0)]

-----------------------------------------------------------------------------
(* Subclass hooks.  BaseFT leaves filtered_update and filtered_withdraw to  *)
(* the concrete node; the node modelled here notes the call and forwards    *)
(* the record through emit_update / emit_withdraw.                          *)

filtered_update(source, indicator, value) ==
    /\ hooked' = << [hook |-> "filtered_update", source |-> source,
                     indicator |-> indicator, value |-> value] >>
    /\ published' = emit_update(indicator, value)

filtered_withdraw(source, indicator, value) ==
    /\ hooked' = << [hook |-> "filtered_withdraw", source |-> source,
                     indicator |-> indicator, value |-> value] >>
    /\ published' = emit_withdraw(indicator, value)

-----------------------------------------------------------------------------
(* Lifecycle                                                                *)

connect(ins, outp) ==
    /\ pc = "idle"
    /\ Called("connect", None, None)
    /\ IF ~may_connect(state)
       THEN Raises
       ELSE /\ inputs' = ins
            /\ inputs_checkpoint' = << >>
            /\ has_inputs_checkpoint' = TRUE
            /\ output' = IF outp THEN Some("pub") ELSE output
            /\ state' = CONNECTED
            /\ result' = "return"
            /\ hooked' = << >>
            /\ published' = << >>
            /\ UNCHANGED <<last_checkpoint, chkp_file, infilters, outfilters,
                           pc, nmarkers>>

start ==
    /\ pc = "idle"
    /\ Called("start", None, None)
    /\ IF ~may_start(state)
       THEN Raises
       ELSE /\ state' = STARTED
            /\ nmarkers' = 0
            /\ result' = "return"
            /\ hooked' = << >>
            /\ published' = << >>
            /\ UNCHANGED <<inputs, output, has_inputs_checkpoint,
                           inputs_checkpoint, last_checkpoint, chkp_file,
                           infilters, outfilters, pc>>

stop ==
    /\ pc = "idle"
    /\ Called("stop", None, None)
    /\ IF ~may_stop(state)
       THEN Raises
       ELSE /\ state' = STOPPED
            /\ result' = "return"
            /\ hooked' = << >>
            /\ published' = << >>
            /\ UNCHANGED <<inputs, output, has_inputs_checkpoint,
                           inputs_checkpoint, last_checkpoint, chkp_file,
                           infilters, outfilters, pc, nmarkers>>

-----------------------------------------------------------------------------
(* Data path                                                                *)

update(source, indicator, value) ==
    /\ pc = "idle"
    /\ Called("update", Some(source), None)
    /\ IF ~accepts_data(state)
       THEN Returns("return")
       ELSE IF ~has_inputs_checkpoint
                \/ from_checkpointed(inputs_checkpoint, source)
       THEN Raises
       ELSE LET v == strip_transit_keys(value)
                flt == Filters_apply(infilters, indicator, v)
            IN  /\ IF flt[1] = None
                   THEN filtered_withdraw(source, indicator,
                                          withdrawn_value(v, flt[2]))
                   ELSE filtered_update(source, The(flt[1]), flt[2])
                /\ result' = "return"
                /\ UNCHANGED <<node, pc, nmarkers>>

withdraw(source, indicator, value) ==
    /\ pc = "idle"
    /\ Called("withdraw", Some(source), None)
    /\ IF ~accepts_data(state)
       THEN Returns("return")
       ELSE IF ~has_inputs_checkpoint
                \/ from_checkpointed(inputs_checkpoint, source)
       THEN Raises
       ELSE /\ filtered_withdraw(source, indicator,
                                 strip_transit_keys(value))
            /\ result' = "return"
            /\ UNCHANGED <<node, pc, nmarkers>>

checkpoint(source, value) ==
    /\ pc = "idle"
    /\ Called("checkpoint", Some(source), Some(value))
    /\ IF ~accepts_data(state)
       THEN Raises
       ELSE IF ~has_inputs_checkpoint \/ diverges(inputs_checkpoint, value)
       THEN Raises
       ELSE LET map == record_marker(inputs_checkpoint, source, value)
            IN  /\ inputs_checkpoint' = map
                /\ nmarkers' = IF nmarkers < MaxMarkers
                               THEN nmarkers + 1 ELSE nmarkers
                /\ result' = "return"
                /\ hooked' = << >>
                /\ IF ~barrier_complete(map, inputs)
                   THEN /\ state' = CHECKPOINT
                        /\ published' = << >>
                        /\ UNCHANGED <<last_checkpoint, chkp_file>>
                   ELSE /\ state' = IDLE
                        /\ chkp_file' = create_checkpoint(value)
                        /\ last_checkpoint' = Some(value)
                        /\ published' = emit_checkpoint(value)
                /\ UNCHANGED <<inputs, output, has_inputs_checkpoint,
                               infilters, outfilters, pc>>

-----------------------------------------------------------------------------
(* Management bus                                                           *)

mgmtbus_initialize ==
    /\ pc = "idle"
    /\ Called("mgmtbus_initialize", None, None)
    /\ state' = INIT
    /\ result' = "OK"
    /\ hooked' = << >>
    /\ published' = << >>
    /\ UNCHANGED <<inputs, output, has_inputs_checkpoint, inputs_checkpoint,
                   last_checkpoint, chkp_file, infilters, outfilters, pc,
                   nmarkers>>

\* mgmtbus_rebuild / mgmtbus_reset up to the call of the subclass hook
mgmtbus_enter(op, st) ==
    /\ pc = "idle"
    /\ Called(op, None, None)
    /\ state' = st
    /\ pc' = op
    /\ result' = "running"
    /\ hooked' = << >>
    /\ published' = << >>
    /\ UNCHANGED <<inputs, output, has_inputs_checkpoint, inputs_checkpoint,
                   last_checkpoint, chkp_file, infilters, outfilters,
                   nmarkers>>

\* the hook (BaseFT.rebuild / BaseFT.reset: pass) and the handler's return
mgmtbus_leave(op, hook) ==
    /\ pc = op
    /\ state' = INIT
    /\ pc' = "idle"
    /\ result' = "OK"
    /\ hooked' = << [hook |-> hook] >>
    /\ UNCHANGED <<inputs, output, has_inputs_checkpoint, inputs_checkpoint,
                   last_checkpoint, chkp_file, infilters, outfilters, call,
                   published, nmarkers>>

mgmtbus_rebuild == mgmtbus_enter("mgmtbus_rebuild", REBUILDING)

rebuild == mgmtbus_leave("mgmtbus_rebuild", "rebuild")

mgmtbus_reset == mgmtbus_enter("mgmtbus_reset", RESET)

reset == mgmtbus_leave("mgmtbus_reset", "reset")

mgmtbus_checkpoint(value) ==
    /\ pc = "idle"
    /\ Called("mgmtbus_checkpoint", None, Some(value))
    /\ IF ~is_source(inputs)
       THEN Returns("ignored")
       ELSE /\ state' = IDLE
            /\ chkp_file' = create_checkpoint(value)
            /\ last_checkpoint' = Some(value)
            /\ published' = emit_checkpoint(value)
            /\ result' = "OK"
            /\ hooked' = << >>
            /\ UNCHANGED <<inputs, output, has_inputs_checkpoint,
                           inputs_checkpoint, infilters, outfilters, pc,
                           nmarkers>>

-----------------------------------------------------------------------------
(* Faults: a store of the marker that raises or is cut by a crash of the   *)
(* process, and the restart of the process.                                 *)

Prefixes(value) == {SubSeq(value, 1, n) : n \in 0..Len(value)}

\* open(name, 'w') truncates <name>.chkp and f.write(value) fills it: when
\* the store raises, the file is untouched (open failed) or holds less than
\* the value (write failed)
store_failed(file, value) ==
    {file} \cup {Some(p) : p \in Prefixes(value) \ {value}}

\* the same when the process dies in create_checkpoint: untouched, or any
\* part of the value up to the whole of it
store_cut(file, value) == {file} \cup {Some(p) : p \in Prefixes(value)}

\* the statements of a barrier completion that run before create_checkpoint:
\* self.state = IDLE; create_checkpoint; self.last_checkpoint = value;
\* emit_checkpoint
precedes_store_m(stmt) == TRUE

precedes_store(stmt) == stmt = "state"

\* the completion of a barrier when create_checkpoint does not return
interrupted_store(value, how) ==
    /\ state' = IF precedes_store("state") THEN IDLE ELSE state
    /\ chkp_file' \in IF how = "crash" THEN store_cut(chkp_file, value)
                                       ELSE store_failed(chkp_file, value)
    /\ last_checkpoint' = IF precedes_store("last_checkpoint")
                          THEN Some(value) ELSE last_checkpoint
    /\ published' = IF precedes_store("emit")
                    THEN emit_checkpoint(value) ELSE << >>
    /\ hooked' = << >>
    /\ result' = how
    /\ pc' = IF how = "crash" THEN "crashed" ELSE pc
    /\ UNCHANGED <<inputs, output, has_inputs_checkpoint, infilters,
                   outfilters>>

\* checkpoint() completing the barrier, with the store interrupted
checkpoint_interrupted(source, value, how) ==
    /\ pc = "idle"
    /\ accepts_data(state)
    /\ has_inputs_checkpoint
    /\ ~diverges(inputs_checkpoint, value)
    /\ barrier_complete(record_marker(inputs_checkpoint, source, value),
                        inputs)
    /\ Called("checkpoint", Some(source), Some(value))
    /\ inputs_checkpoint' = record_marker(inputs_checkpoint, source, value)
    /\ nmarkers' = IF nmarkers < MaxMarkers THEN nmarkers + 1 ELSE nmarkers
    /\ interrupted_store(value, how)

\* mgmtbus_checkpoint() of a source, with the store interrupted
mgmtbus_checkpoint_interrupted(value, how) ==
    /\ pc = "idle"
    /\ is_source(inputs)
    /\ Called("mgmtbus_checkpoint", None, Some(value))
    /\ interrupted_store(value, how)
    /\ UNCHANGED <<inputs_checkpoint, nmarkers>>

\* the process ends (or has crashed) and a new node of the same name is
\* constructed from the same configuration
restart ==
    /\ pc \in {"idle", "crashed"}
    /\ Called("restart", None, None)
    /\ state' = READY
    /\ inputs' = << >>
    /\ output' = None
    /\ has_inputs_checkpoint' = FALSE
    /\ inputs_checkpoint' = << >>
    /\ last_checkpoint' = read_checkpoint(chkp_file)
    /\ chkp_file' = None
    /\ pc' = "idle"
    /\ result' = "return"
    /\ hooked' = << >>
    /\ published' = << >>
    /\ nmarkers' = 0
    /\ UNCHANGED <<infilters, outfilters>>

-----------------------------------------------------------------------------

\* Under Spec the environment calls the handlers directly, in any order.
alone == UNCHANGED <<returned, graph>>

Next ==
    \/ \E ins \in InputLists, outp \in BOOLEAN : connect(ins, outp) /\ alone
    \/ start /\ alone
    \/ stop /\ alone
    \/ \E s \in Sources, i \in Indicators, v \in Values :
           update(s, i, v) /\ alone
    \/ \E s \in Sources, i \in Indicators, v \in Values :
           withdraw(s, i, v) /\ alone
    \/ \E s \in Sources, m \in Markers : checkpoint(s, m) /\ alone
    \/ mgmtbus_initialize /\ alone
    \/ mgmtbus_rebuild /\ alone
    \/ rebuild /\ alone
    \/ mgmtbus_reset /\ alone
    \/ reset /\ alone
    \/ \E m \in Markers : mgmtbus_checkpoint(m) /\ alone

Spec == Init /\ [][Next]_vars

-----------------------------------------------------------------------------
(* Calls that return a value: the filter chains and the outbound RPC        *)

\* apply_infilters / apply_outfilters: what the call returns, and the
\* caller's value after it (apply works on copy.deepcopy(value))
applied(filters, op, indicator, value) ==
    /\ pc = "idle"
    /\ Called(op, None, None)
    /\ returned' = Some([out |-> Filters_apply(filters, indicator, value),
                         arg |-> value])
    /\ Returns("return")
    /\ UNCHANGED graph

apply_infilters(indicator, value) ==
    applied(infilters, "apply_infilters", indicator, value)

apply_outfilters(indicator, value) ==
    applied(outfilters, "apply_outfilters", indicator, value)

\* the transport's send_rpc, which hands back the result or the error
comm_send_rpc(reply) == Some(reply)

\* Fabric.send_rpc: self.comm.send_rpc(...) is called and the method ends
\* without a return statement
Fabric_send_rpc(reply) ==
    LET handed_back == comm_send_rpc(reply)
    IN  None

\* Fabric.send_rpc called by its owner
send_rpc(reply) ==
    /\ pc = "idle"
    /\ Called("send_rpc", None, None)
    /\ returned' = Fabric_send_rpc(reply)
    /\ Returns("return")
    /\ UNCHANGED graph

\* the chassis passes the call to its fabric
chassis_send_rpc(reply) == Fabric_send_rpc(reply)

\* return self.chassis.send_rpc(self.name, dftname, method, kwargs, ...)
do_rpc(reply) ==
    /\ pc = "idle"
    /\ Called("do_rpc", None, None)
    /\ returned' = chassis_send_rpc(reply)
    /\ Returns("return")
    /\ UNCHANGED graph

InitCalls == Constructed(CallFilterConfigs)

NextCalls ==
    \/ \E i \in Indicators, v \in Values : apply_infilters(i, v)
    \/ \E i \in Indicators, v \in Values : apply_outfilters(i, v)
    \/ \E r \in RpcReplies : send_rpc(r)
    \/ \E r \in RpcReplies : do_rpc(r)

SpecCalls == InitCalls /\ [][NextCalls]_vars

-----------------------------------------------------------------------------
(* The graph A, B -> node -> subscriber.  Each publisher has a FIFO channel *)
(* to the node; the node handles one message at a time; the chassis brings  *)
(* the node up before the publishers send, and a publisher sends nothing    *)
(* after its checkpoint until the round is over.                            *)

InputSet == {inputs[n] : n \in 1..Len(inputs)}

quiet == UNCHANGED <<node, pc, call, result, hooked, published, nmarkers,
                     returned>>

chassis_connect(ins) ==
    /\ state = READY
    /\ connect(ins, TRUE)
    /\ alone

chassis_initialize ==
    /\ state = CONNECTED
    /\ mgmtbus_initialize
    /\ alone

\* after a barrier, when everything the node published has been received,
\* the chassis resets the node for the next round
chassis_reset ==
    /\ state = IDLE
    /\ round < MaxRounds
    /\ nseen = Len(outlog)
    /\ \A s \in Upstreams : chan[s] = << >>
    /\ mgmtbus_reset
    /\ round' = round + 1
    /\ done' = [s \in Upstreams |-> FALSE]
    /\ sent' = 0
    /\ outlog' = << >>
    /\ nseen' = 0
    /\ UNCHANGED <<returned, chan>>

chassis_start ==
    /\ state = INIT
    /\ start
    /\ alone

\* a publisher emits an update or a withdraw
publish_data(s, topic, indicator, value) ==
    /\ s \in InputSet
    /\ state \in {STARTED, CHECKPOINT}
    /\ ~done[s]
    /\ sent < MaxSent
    /\ chan' = [chan EXCEPT ![s] = Append(@, [topic |-> topic,
                                              indicator |-> indicator,
                                              value |-> value])]
    /\ sent' = sent + 1
    /\ quiet
    /\ UNCHANGED <<done, outlog, nseen, round>>

\* a publisher emits the checkpoint of the round, its last message
publish_checkpoint(s) ==
    /\ s \in InputSet
    /\ state \in {STARTED, CHECKPOINT}
    /\ ~done[s]
    /\ chan' = [chan EXCEPT ![s] = Append(@, [topic |-> "checkpoint",
                                              value |-> RoundMarker(round)])]
    /\ done' = [done EXCEPT ![s] = TRUE]
    /\ quiet
    /\ UNCHANGED <<sent, outlog, nseen, round>>

\* the oldest message of a channel reaches the handler of its topic; what
\* the handler publishes goes to the node's own channel
deliver(s) ==
    /\ chan[s] # << >>
    /\ LET msg == Head(chan[s])
       IN  \/ msg.topic = "update" /\ update(s, msg.indicator, msg.value)
           \/ msg.topic = "withdraw" /\ withdraw(s, msg.indicator, msg.value)
           \/ msg.topic = "checkpoint" /\ checkpoint(s, msg.value)
    /\ chan' = [chan EXCEPT ![s] = Tail(@)]
    /\ outlog' = outlog \o published'
    /\ UNCHANGED <<returned, done, sent, nseen, round>>

\* the subscriber receives the next message of the node's channel
subscriber_receives ==
    /\ nseen < Len(outlog)
    /\ nseen' = nseen + 1
    /\ quiet
    /\ UNCHANGED <<chan, done, sent, outlog, round>>

NextGraph ==
    \/ \E ins \in GraphInputs : chassis_connect(ins)
    \/ chassis_initialize
    \/ chassis_reset
    \/ reset /\ alone
    \/ chassis_start
    \/ \E s \in Upstreams, t \in {"update", "withdraw"}, i \in Indicators,
          v \in Values : publish_data(s, t, i, v)
    \/ \E s \in Upstreams : publish_checkpoint(s)
    \/ \E s \in Upstreams : deliver(s)
    \/ subscriber_receives

SpecGraph == Init /\ [][NextGraph]_vars

\* SpecFaults: the lifecycle and the checkpoints of a node without filters,
\* where the store of a marker may raise or be cut by a crash, and the
\* process may be restarted.
InitFaults == Constructed({ << >> })

NextFaults ==
    \/ \E ins \in InputLists, outp \in BOOLEAN : connect(ins, outp) /\ alone
    \/ start /\ alone
    \/ stop /\ alone
    \/ \E s \in Sources, m \in Markers : checkpoint(s, m) /\ alone
    \/ mgmtbus_initialize /\ alone
    \/ \E m \in Markers : mgmtbus_checkpoint(m) /\ alone
    \/ \E s \in Sources, m \in Markers, how \in {"raise", "crash"} :
           checkpoint_interrupted(s, m, how) /\ alone
    \/ \E m \in Markers, how \in {"raise", "crash"} :
           mgmtbus_checkpoint_interrupted(m, how) /\ alone
    \/ restart /\ alone

SpecFaults == InitFaults /\ [][NextFaults]_vars

TypeOK ==
    /\ state \in States
    /\ inputs \in InputLists
    /\ pc \in {"idle", "mgmtbus_rebuild", "mgmtbus_reset", "crashed"}
    /\ result \in {"return", "raise", "OK", "ignored", "running", "crash"}
    /\ nmarkers \in 0..MaxMarkers

-----------------------------------------------------------------------------
(* Vocabulary of the properties                                             *)

DataOps == {"update", "withdraw", "checkpoint"}

Accepting == {STARTED, CHECKPOINT}

CheckpointMsg(m) == [topic |-> "checkpoint", value |-> m]

PublishedCheckpoint(pub) ==
    \E i \in 1..Len(pub) : pub[i].topic = "checkpoint"

RecordedSources == Cardinality(DOMAIN inputs_checkpoint)

\* a data-path checkpoint was recorded by the last call
Recorded == call.op = "checkpoint" /\ result = "return"

-----------------------------------------------------------------------------
\* C1 (as stated): a non-source node with k inputs and an output publishes
\* a checkpoint if and only if exactly k markers have been received.
C1_ExactlyKMarkers ==
    (Recorded /\ Len(inputs) >= 1 /\ output # None)
        => (PublishedCheckpoint(published) <=> nmarkers = Len(inputs))

\* C1 (amended): a non-source node with k inputs publishes a checkpoint if
\* and only if a checkpoint call has just brought the number of distinct
\* sources recorded in the inputs-checkpoint map to k (and the node has an
\* output); the call that leaves the map at another size publishes nothing
\* and leaves the node in CHECKPOINT, the one that makes it k leaves it IDLE.
C1_BarrierCountsSources ==
    Len(inputs) >= 1 =>
        /\ PublishedCheckpoint(published)
               <=> (Recorded /\ RecordedSources = Len(inputs) /\ output # None)
        /\ Recorded =>
               \/ /\ RecordedSources = Len(inputs)
                  /\ state = IDLE
                  /\ output # None
                         => published = << CheckpointMsg(The(call.marker)) >>
               \/ /\ RecordedSources # Len(inputs)
                  /\ state = CHECKPOINT
                  /\ published = << >>

\* a two-input barrier completed although one source sent its marker twice
C1_Witness ==
    /\ Recorded
    /\ Len(inputs) = 2
    /\ nmarkers = 3
    /\ state = IDLE
    /\ PublishedCheckpoint(published)

-----------------------------------------------------------------------------
\* C2: when a node completes a barrier (data-path checkpoint on a non-source
\* node, mgmt checkpoint on a source) the content of <name>.chkp, the
\* checkpoint reported by state_info() and the marker of the checkpoint
\* message published downstream are the same string, the marker received.
C2_OneMarker ==
    LET completed == \/ Recorded /\ state = IDLE
                     \/ call.op = "mgmtbus_checkpoint" /\ result = "OK"
    IN  /\ completed =>
               /\ chkp_file = call.marker
               /\ mgmtbus_state_info.checkpoint = call.marker
               /\ output # None
                      => published = << CheckpointMsg(The(call.marker)) >>
        /\ PublishedCheckpoint(published) =>
               /\ completed
               /\ chkp_file = Some(published[1].value)
               /\ mgmtbus_state_info.checkpoint = Some(published[1].value)

\* a barrier completed on a marker that strip() would alter
C2_Witness ==
    /\ Recorded
    /\ state = IDLE
    /\ call.marker = Some(<<"a", " ">>)
    /\ published = << CheckpointMsg(<<"a", " ">>) >>
    /\ chkp_file = Some(<<"a", " ">>)

-----------------------------------------------------------------------------
\* C3: all markers held in the inputs-checkpoint map are equal, and a
\* checkpoint whose marker differs from one in the map (also the one of the
\* same source) raises and changes neither the map, the state,
\* last_checkpoint, the file nor the output channel.
C3_NoDivergence ==
    /\ [](\A s, t \in DOMAIN inputs_checkpoint :
              inputs_checkpoint[s] = inputs_checkpoint[t])
    /\ [][ ( /\ call'.op = "checkpoint"
             /\ \E s \in DOMAIN inputs_checkpoint :
                    inputs_checkpoint[s] # The(call'.marker) )
           => /\ result' = "raise"
              /\ published' = << >>
              /\ UNCHANGED <<inputs_checkpoint, state, last_checkpoint,
                             chkp_file, output>> ]_vars

\* a second, different marker was refused while the node waited in CHECKPOINT
C3_Witness ==
    /\ call.op = "checkpoint"
    /\ result = "raise"
    /\ state = CHECKPOINT
    /\ \E s \in DOMAIN inputs_checkpoint :
           inputs_checkpoint[s] # The(call.marker)

-----------------------------------------------------------------------------
\* C4: in STARTED or CHECKPOINT an update or withdraw from a source whose
\* checkpoint is recorded raises, invokes no hook and publishes nothing; in
\* CHECKPOINT one from a source not yet recorded returns normally after
\* exactly one hook call for that source.
C4_SilentAfterCheckpoint ==
    [][ call'.op \in {"update", "withdraw"} /\ state \in Accepting
            /\ has_inputs_checkpoint
        => IF The(call'.source) \in DOMAIN inputs_checkpoint
           THEN /\ result' = "raise"
                /\ hooked' = << >>
                /\ published' = << >>
                /\ UNCHANGED node
           ELSE /\ result' = "return"
                /\ Len(hooked') = 1
                /\ hooked'[1].source = The(call'.source)
                /\ hooked'[1].hook \in
                       IF call'.op = "withdraw"
                       THEN {"filtered_withdraw"}
                       ELSE {"filtered_update", "filtered_withdraw"}
                /\ UNCHANGED node ]_vars

\* an update from a source whose marker is recorded was refused
C4_Witness ==
    /\ call.op = "update"
    /\ result = "raise"
    /\ state = CHECKPOINT
    /\ The(call.source) \in DOMAIN inputs_checkpoint

-----------------------------------------------------------------------------
-----------------------------------------------------------------------------
\* C6: an update, withdraw or checkpoint handled in a state other than
\* STARTED or CHECKPOINT invokes no hook, publishes nothing and leaves the
\* state, the inputs-checkpoint map, last_checkpoint and the file unchanged.
C6_NoEffectOutsideDataStates ==
    [][ call'.op \in DataOps /\ state \notin Accepting
        => /\ hooked' = << >>
           /\ published' = << >>
           /\ UNCHANGED <<state, has_inputs_checkpoint, inputs_checkpoint,
                          last_checkpoint, chkp_file>> ]_vars

\* a withdraw reached a STOPPED node that still holds recorded markers
C6_Witness ==
    /\ call.op = "withdraw"
    /\ state = STOPPED
    /\ DOMAIN inputs_checkpoint # {}
    /\ hooked = << >>
    /\ published = << >>

-----------------------------------------------------------------------------
\* The transitions listed for the node state machine, each with the
\* operation that makes it.
ListedTransitions ==
    { <<READY, "connect", CONNECTED>>,
      <<CONNECTED, "mgmtbus_initialize", INIT>>,
      <<INIT, "start", STARTED>>,
      <<INIT, "mgmtbus_rebuild", REBUILDING>>,
      <<REBUILDING, "mgmtbus_rebuild", INIT>>,
      <<INIT, "mgmtbus_reset", RESET>>,
      <<RESET, "mgmtbus_reset", INIT>>,
      <<STARTED, "checkpoint", CHECKPOINT>>,
      <<STARTED, "checkpoint", IDLE>>,
      <<CHECKPOINT, "checkpoint", IDLE>>,
      <<STARTED, "mgmtbus_checkpoint", IDLE>>,
      <<IDLE, "stop", STOPPED>>,
      <<STARTED, "stop", STOPPED>> }

Listed(st, op) == \E t \in States : <<st, op, t>> \in ListedTransitions

StateOps == {"connect", "start", "stop", "checkpoint", "mgmtbus_initialize",
             "mgmtbus_rebuild", "mgmtbus_reset", "mgmtbus_checkpoint"}

\* C7 (as stated): every change of the node state is a listed transition,
\* and an operation invoked in a state from which none is listed for it
\* raises and does not change the state.
C7_OnlyListedTransitions ==
    [][ /\ state' # state => <<state, call'.op, state'>> \in ListedTransitions
        /\ (call'.op \in StateOps /\ ~Listed(state, call'.op))
               => (result' = "raise" /\ state' = state) ]_vars

\* C7 (amended): every change of state made by connect, start, stop or a
\* data-path checkpoint is a listed transition, and each of them raises
\* without changing the state when none is listed from the current state;
\* update and withdraw never change the state; the management-bus
\* operations are accepted in every state: initialize sets INIT, rebuild and
\* reset set REBUILDING / RESET and then INIT, checkpoint sets IDLE on a node
\* without inputs and changes nothing on any other.
C7_GuardedLifecycleOpenMgmt ==
    [][ LET op == call'.op
        IN  /\ op \in {"connect", "start", "stop", "checkpoint"} =>
                   /\ state' # state
                          => <<state, op, state'>> \in ListedTransitions
                   /\ ~Listed(state, op)
                          => (result' = "raise" /\ state' = state)
            /\ op \in {"update", "withdraw"} => state' = state
            /\ op = "mgmtbus_initialize" => state' = INIT
            /\ op = "mgmtbus_rebuild" =>
                   IF pc = "idle" THEN state' = REBUILDING
                   ELSE state = REBUILDING /\ state' = INIT
            /\ op = "mgmtbus_reset" =>
                   IF pc = "idle" THEN state' = RESET
                   ELSE state = RESET /\ state' = INIT
            /\ op = "mgmtbus_checkpoint" =>
                   state' = IF Len(inputs) = 0 THEN IDLE ELSE state ]_vars

\* start() was refused on a stopped node
C7_Witness ==
    /\ call.op = "start"
    /\ result = "raise"
    /\ state = STOPPED

-----------------------------------------------------------------------------
\* C8: after mgmt reset or mgmt rebuild has returned, the inputs-checkpoint
\* map is empty.
C8_MapClearedByResetRebuild ==
    (call.op \in {"mgmtbus_reset", "mgmtbus_rebuild"} /\ result = "OK")
        => DOMAIN inputs_checkpoint = {}

-----------------------------------------------------------------------------
\* C9: mgmt checkpoint(marker) on a node without inputs writes the marker to
\* the file, sets last_checkpoint to it, sets IDLE and publishes exactly one
\* checkpoint carrying it when the node has an output; on a node with
\* inputs it returns 'ignored' and changes neither the state,
\* last_checkpoint, the inputs-checkpoint map, the file nor the output.
C9_MgmtCheckpointOnSourcesOnly ==
    [][ call'.op = "mgmtbus_checkpoint" =>
            IF Len(inputs) = 0
            THEN /\ result' = "OK"
                 /\ chkp_file' = call'.marker
                 /\ last_checkpoint' = call'.marker
                 /\ state' = IDLE
                 /\ published' = IF output = None THEN << >>
                                 ELSE << CheckpointMsg(The(call'.marker)) >>
            ELSE /\ result' = "ignored"
                 /\ published' = << >>
                 /\ UNCHANGED <<state, last_checkpoint, inputs_checkpoint,
                                chkp_file, output>> ]_vars

\* a connected source with an output took a mgmt checkpoint while STARTED
C9_Witness ==
    /\ call.op = "mgmtbus_checkpoint"
    /\ result = "OK"
    /\ has_inputs_checkpoint
    /\ Len(inputs) = 0
    /\ published = << CheckpointMsg(The(call.marker)) >>
    /\ state = IDLE

-----------------------------------------------------------------------------
\* C10: a node whose inputs list is empty is never in state CHECKPOINT.
C10_SourceNeverWaits == Len(inputs) = 0 => state # CHECKPOINT

-----------------------------------------------------------------------------
NoTransitKeys(value) ==
    value # None => \A k \in DOMAIN The(value) : ~startswith_underscore(k)

\* C12: an update accepted in STARTED or CHECKPOINT reaches exactly one
\* hook: filtered_update with the filtered record when the infilters accept
\* it, filtered_withdraw with the indicator and the original value, stripped
\* of its _ keys and not filtered, when they drop it.
C12_OneHookPerUpdate ==
    [][ \A s \in Sources, i \in Indicators, v \in Values :
          (update(s, i, v) /\ state \in Accepting /\ result' = "return")
          => LET sv == strip_transit_keys(v)
                 flt == Filters_apply(infilters, i, sv)
             IN  /\ hooked' =
                        IF flt[1] # None
                        THEN << [hook |-> "filtered_update", source |-> s,
                                 indicator |-> The(flt[1]),
                                 value |-> flt[2]] >>
                        ELSE << [hook |-> "filtered_withdraw", source |-> s,
                                 indicator |-> i, value |-> sv] >>
                 /\ NoTransitKeys(hooked'[1].value)
                 /\ (infilters = ScoreFilters
                         /\ v = Some([k \in {ScoreKey} |-> 10]))
                        => (hooked'[1].hook = "filtered_withdraw"
                                /\ hooked'[1].value = v)
                 /\ (infilters = ScoreFilters
                         /\ v = Some([k \in {ScoreKey, TransitKey} |-> 80]))
                        => (hooked'[1].hook = "filtered_update"
                                /\ hooked'[1].value
                                       = Some([k \in {ScoreKey} |-> 80])) ]_vars

\* an update with score 10 was dropped by the infilters and withdrawn
C12_Witness ==
    /\ call.op = "update"
    /\ result = "return"
    /\ infilters = ScoreFilters
    /\ Len(hooked) = 1
    /\ hooked[1].hook = "filtered_withdraw"
    /\ hooked[1].value = Some([k \in {ScoreKey} |-> 10])

-----------------------------------------------------------------------------
\* C17: once a node that completed a barrier has been brought back to
\* STARTED, an update or withdraw from any of its inputs is processed
\* without a fatal error.
C17_ResumesAfterCycle ==
    [][ ( /\ call'.op \in {"update", "withdraw"}
          /\ state = STARTED
          /\ chkp_file # None
          /\ The(call'.source) \in InputSet )
        => result' = "return" ]_vars

-----------------------------------------------------------------------------
\* C18: when a non-source node completes a barrier through the data path,
\* the sources recorded in the inputs-checkpoint map are exactly its inputs.
C18_AllInputsRecorded ==
    (Recorded /\ state = IDLE /\ Len(inputs) >= 1)
        => DOMAIN inputs_checkpoint = InputSet

-----------------------------------------------------------------------------
\* C14 (as stated): for every marker M, after the node persisted M and the
\* process restarts, state_info() reports checkpoint = M and <name>.chkp is
\* absent.
C14_RecoversMarker ==
    [][ (restart /\ pc = "idle" /\ chkp_file # None
             /\ chkp_file = last_checkpoint)
        => /\ mgmtbus_state_info'.checkpoint = last_checkpoint
           /\ chkp_file' = None ]_vars

\* C14 (amended): after a restart state_info() reports the persisted marker
\* with its leading and trailing whitespace removed, and <name>.chkp is
\* absent; when there was no file the checkpoint is absent; the construction
\* does not fail in either case.
C14_RecoversStrippedMarker ==
    [][ restart
        => /\ chkp_file' = None
           /\ result' = "return"
           /\ state' = READY
           /\ chkp_file = None => mgmtbus_state_info'.checkpoint = None
           /\ chkp_file # None =>
                  LET M == The(chkp_file)
                      recovered == mgmtbus_state_info'.checkpoint
                  IN  /\ recovered # None
                      /\ \E lead, trail \in {<< >>, <<" ">>} :
                             M = lead \o The(recovered) \o trail
                      /\ The(recovered) # << >> =>
                             /\ ~IsSpace(Head(The(recovered)))
                             /\ ~IsSpace(The(recovered)[Len(The(recovered))])
           /\ chkp_file = Some(<<"a", " ">>)
                  => mgmtbus_state_info'.checkpoint = Some(<<"a">>) ]_vars

\* a restarted node recovered a checkpoint and removed the file
C14_Witness ==
    /\ call.op = "restart"
    /\ state = READY
    /\ mgmtbus_state_info.checkpoint = Some(<<"a">>)
    /\ chkp_file = None

-----------------------------------------------------------------------------
\* C15: when the process crashes during a store of marker M, <name>.chkp
\* holds afterwards its complete previous content (or is absent as before)
\* or the complete marker M.
C15_StoreIsAtomic ==
    [][ pc' = "crashed" => chkp_file' \in {chkp_file, call'.marker} ]_vars

-----------------------------------------------------------------------------
StoreFails ==
    \/ \E s \in Sources, m \in Markers : checkpoint_interrupted(s, m, "raise")
    \/ \E m \in Markers : mgmtbus_checkpoint_interrupted(m, "raise")

-----------------------------------------------------------------------------
\* the (indicator, value) an accept returns
Accepted(indicator, value) ==
    << Some(indicator),
       IF value = None
       THEN None
       ELSE Some([k \in DOMAIN The(value) \ {IndicatorKey} |->
                     The(value)[k]]) >>

\* the filters of a chain whose conditions all hold on d and that have a
\* terminal action
Deciders(filters, d) ==
    {n \in 1..Len(filters) :
        /\ \A c \in 1..Len(filters[n].conditions) :
               Condition_eval(filters[n].conditions[c], d)
        /\ \E a \in 1..Len(filters[n].actions) :
               filters[n].actions[a] \in {"accept", "drop"}}

Least(S) == CHOOSE n \in S : \A m \in S : n <= m

Decision(filters, indicator, value) ==
    LET rec == IF value = None THEN << >> ELSE The(value)
        d == [k \in DOMAIN rec \cup {IndicatorKey} |->
                 IF k = IndicatorKey THEN indicator ELSE rec[k]]
        dec == Deciders(filters, d)
    IN  IF dec = {}
        THEN Accepted(indicator, value)
        ELSE LET f == filters[Least(dec)]
                 a == Least({k \in 1..Len(f.actions) :
                                f.actions[k] \in {"accept", "drop"}})
             IN  IF f.actions[a] = "accept"
                 THEN Accepted(indicator, value)
                 ELSE <<None, None>>

\* C13: apply(indicator, value) is decided by the first filter, in declared
\* order, whose conditions all hold (and that has a terminal action),
\* through its first terminal action: accept returns the indicator with the
\* record without _indicator (absent when no value was given), drop returns
\* (absent, absent); without such a filter the result is accept; the
\* caller's value is what it was.
C13_FirstMatchDecides ==
    [][ \A i \in Indicators, v \in Values :
          /\ apply_infilters(i, v)
                 => returned' = Some([out |-> Decision(infilters, i, v),
                                      arg |-> v])
          /\ apply_outfilters(i, v)
                 => returned' = Some([out |-> Decision(outfilters, i, v),
                                      arg |-> v]) ]_vars

\* a record passed a filter that only logs and was dropped by the next one,
\* whose actions are drop, accept
C13_Witness ==
    /\ call.op = "apply_infilters"
    /\ infilters = LogThenDrop
    /\ returned = Some([out |-> <<None, None>>,
                        arg |-> Some([k \in {ScoreKey} |-> 10])])

-----------------------------------------------------------------------------
\* C16: the value send_rpc returns, and therefore the value do_rpc returns,
\* is the result or error the transport produced for the call, and the call
\* changes no node state.
C16_ReturnsTransportResult ==
    [][ \A r \in RpcReplies :
          (send_rpc(r) \/ do_rpc(r))
              => (returned' = Some(r) /\ UNCHANGED node) ]_vars

-----------------------------------------------------------------------------
\* what the subscriber has received so far
Observed == SubSeq(outlog, 1, nseen)

CheckpointsIn(log) == {n \in 1..Len(log) : log[n].topic = "checkpoint"}

\* updates and withdraws still on their way to the node
InFlight ==
    {<<s, n>> \in Upstreams \X (1..(MaxSent + 2)) :
        n <= Len(chan[s]) /\ chan[s][n].topic # "checkpoint"}

\* C11: in the graph A, B -> node the node publishes the checkpoint of a
\* round after everything it publishes for the updates and withdraws its
\* publishers sent before their checkpoints: when the checkpoint is
\* published every publisher has sent its checkpoint and none of their
\* messages is still in flight, the checkpoint is the last message of the
\* round on the node's channel, the subscriber receives it last, and the
\* node went STARTED -> CHECKPOINT -> IDLE (STARTED -> IDLE with one input).
C11_CheckpointAfterUpdates ==
    /\ [](\A n \in CheckpointsIn(outlog) :
             /\ n = Len(outlog)
             /\ InFlight = {}
             /\ \A s \in InputSet : done[s] /\ chan[s] = << >>
             /\ state = IDLE)
    /\ [](\A n \in CheckpointsIn(Observed) : n = Len(outlog))
    /\ [][ PublishedCheckpoint(published') /\ outlog' # outlog
           => /\ state' = IDLE
              /\ state = IF Len(inputs) > 1 THEN CHECKPOINT ELSE STARTED ]_vars

\* A sent update x then its checkpoint, B its checkpoint: the subscriber
\* received the update for x, then the checkpoint
C11_Witness ==
    /\ inputs = <<"A", "B">>
    /\ state = IDLE
    /\ Len(outlog) = 2
    /\ outlog[1].topic = "update"
    /\ outlog[2] = CheckpointMsg(<<"a">>)
    /\ nseen = 2

-----------------------------------------------------------------------------
\* C20: when every input of a started non-source node has delivered a
\* checkpoint with the marker m of the round, and nothing after it, the node
\* is IDLE with last_checkpoint = m and has published one checkpoint for the
\* barrier.
C20_BarrierCompletes ==
    ( /\ Len(inputs) >= 1
      /\ state \notin {READY, CONNECTED, INIT, RESET}
      /\ \A s \in InputSet : done[s] /\ chan[s] = << >> )
    => /\ state = IDLE
       /\ last_checkpoint = Some(RoundMarker(round))
       /\ Cardinality(CheckpointsIn(outlog)) = 1

====
